---- MODULE Spec2Model ----
(***************************************************************************)
(* cloudflare-mcp: the Worker entry point (index.ts: fetch, verifyToken,   *)
(* extractToken, jsonError) and the tool facade (server.ts: createServer,  *)
(* the search handler and the two execute handlers).                       *)
(*                                                                         *)
(* Every HTTP request is one session: fetch() extracts the bearer token,   *)
(* resolves the identity with verifyToken, builds a fresh McpServer and    *)
(* transport, lets the transport handle the request's tool calls and       *)
(* closes.  executor.ts and truncate.ts are not part of the available      *)
(* sources; their outcomes are modelled from the specification.            *)
(***************************************************************************)
EXTENDS Naturals, Sequences, FiniteSets, TLC

\* ------------------------------------------------------------------ bounds
MaxHdrLen == 4
MaxAccounts == 2

\* JavaScript undefined / null / a missing property or argument.
Absent == "<absent>"

Requests == {"r1", "r2"}

\* ------------------------------------------------------- strings and text
RECURSIVE Rep(_)
\* n copies of the character "x".
Rep(n) == IF n = 0 THEN "" ELSE "x" \o Rep(n - 1)

RECURSIVE Concat(_)
\* The string spelled by a sequence of symbols.
Concat(s) == IF s = <<>> THEN "" ELSE Head(s) \o Concat(Tail(s))

RECURSIVE JoinFrom(_, _, _)
JoinFrom(s, sep, i) ==
    IF i > Len(s) THEN ""
    ELSE IF i = Len(s) THEN s[i]
    ELSE s[i] \o sep \o JoinFrom(s, sep, i + 1)

\* Array.prototype.join
Join(s, sep) == JoinFrom(s, sep, 1)

\* a || b on strings: "" and undefined are falsy.
OrElse(a, b) == IF a = Absent \/ a = "" THEN b ELSE a

\* JavaScript truthiness of an optional string.
Truthy(a) == a # Absent /\ a # ""

\* ---------------------------------------------------- Authorization header
\* A header value is a sequence of symbols: the word "Bearer", a whitespace
\* character, or another non-space character.  request.headers.get strips
\* leading and trailing whitespace, so no value starts or ends with " ".
HdrAlphabet == {"Bearer", " ", "x"}

SeqsUpTo(S, n) == UNION {[1..k -> S] : k \in 0..n}

Headers ==
    {h \in SeqsUpTo(HdrAlphabet, MaxHdrLen) :
        h # <<>> => (h[1] # " " /\ h[Len(h)] # " ")}

\* request.headers.get("Authorization") returned null.
NoHeader == <<Absent>>

HeaderInputs == Headers \cup {NoHeader}

\* /Bearer\s+(\S+)/ can match with "Bearer" at position i.
MatchAt(h, i) ==
    /\ h[i] = "Bearer"
    /\ i + 1 <= Len(h)
    /\ h[i + 1] = " "
    /\ \E j \in (i + 2)..Len(h) : h[j] # " "

\* First index after position i that holds a non-space symbol.
FirstNonSpace(h, i) ==
    CHOOSE j \in (i + 1)..Len(h) :
        /\ h[j] # " "
        /\ \A k \in (i + 1)..(j - 1) : h[k] = " "

\* Last index of the run of non-space symbols that starts at j.
RunEnd(h, j) ==
    CHOOSE e \in j..Len(h) :
        /\ \A k \in j..e : h[k] # " "
        /\ (e = Len(h) \/ h[e + 1] = " ")

\* authHeader.match(/Bearer\s+(\S+)/): leftmost match, capture group 1.
extractToken(h) ==
    IF \E i \in 1..Len(h) : MatchAt(h, i)
    THEN LET i == CHOOSE i \in 1..Len(h) :
                      MatchAt(h, i) /\ \A k \in 1..(i - 1) : ~MatchAt(h, k)
             j == FirstNonSpace(h, i)
         IN  Concat(SubSeq(h, j, RunEnd(h, j)))
    ELSE Absent

\* new Response(JSON.stringify({ error: message }), { status, headers })
jsonError(message, status) ==
    [status |-> status, contentType |-> "application/json", error |-> message]

DefaultErrorStatus == 401

\* ------------------------------------------------- the remote API's answers
AccountIds == {"a1", "a2"}

\* errors arrays of the verification envelope (each entry's message).
ErrorLists == {<<>>, <<"">>, <<"Invalid API Token">>, <<"m1", "m2">>}

\* What fetch(".../user/tokens/verify") and its .json() turn out to be:
\* the fetch rejects, the body does not parse, the body is the JSON value
\* null, or it is an envelope {success, errors?}.
UserOutcomes ==
    {[kind |-> "throw", reason |-> "user fetch failed",
      success |-> FALSE, hasErrors |-> FALSE, errors |-> <<>>],
     [kind |-> "badjson", reason |-> "user body is not JSON",
      success |-> FALSE, hasErrors |-> FALSE, errors |-> <<>>],
     [kind |-> "null", reason |-> "",
      success |-> FALSE, hasErrors |-> FALSE, errors |-> <<>>]}
    \cup
    {[kind |-> "json", reason |-> "",
      success |-> s, hasErrors |-> FALSE, errors |-> <<>>] : s \in BOOLEAN}
    \cup
    {[kind |-> "json", reason |-> "",
      success |-> s, hasErrors |-> TRUE, errors |-> e] :
        s \in BOOLEAN, e \in ErrorLists}

\* What fetch(".../accounts") and its .json() turn out to be; result lists
\* the ids of the accounts of the envelope's result array.
AccountsOutcomes ==
    {[kind |-> "throw", reason |-> "accounts fetch failed",
      success |-> FALSE, hasResult |-> FALSE, result |-> <<>>],
     [kind |-> "badjson", reason |-> "accounts body is not JSON",
      success |-> FALSE, hasResult |-> FALSE, result |-> <<>>],
     [kind |-> "null", reason |-> "",
      success |-> FALSE, hasResult |-> FALSE, result |-> <<>>]}
    \cup
    {[kind |-> "json", reason |-> "",
      success |-> s, hasResult |-> FALSE, result |-> <<>>] : s \in BOOLEAN}
    \cup
    {[kind |-> "json", reason |-> "",
      success |-> s, hasResult |-> TRUE, result |-> l] :
        s \in BOOLEAN, l \in SeqsUpTo(AccountIds, MaxAccounts)}

\* ------------------------------------------------------------- verifyToken
NullDerefMessage == "Cannot read properties of null"
MultipleAccountsMessage ==
    "Token has access to multiple accounts - use a single-account token"

Valid(accountId) ==
    [valid |-> TRUE, accountId |-> accountId, error |-> Absent]

Invalid(error) ==
    [valid |-> FALSE, accountId |-> Absent, error |-> error]

\* Mutant: the catch block returns the reason without its prefix.
VerifyCaughtBare(message) == Invalid(message)

\* } catch (err) { ... `Failed to verify token: ${message}` }
VerifyCaught(message) == Invalid("Failed to verify token: " \o message)

\* The rejection reasons of one Promise.all stage; Promise.all rejects with
\* whichever of them settles first.
Rejections(u, a, kind) ==
    (IF u.kind = kind THEN {u.reason} ELSE {})
        \cup (IF a.kind = kind THEN {a.reason} ELSE {})

\* userData.errors?.map(e => e.message).join(", ") || "Invalid token"
InvalidTokenMessage(u) ==
    OrElse(IF u.hasErrors THEN Join(u.errors, ", ") ELSE Absent, "Invalid token")

\* Mutant: the account path is tried before the user-level answer.
VerifyParsedAccountsFirst(u, a) ==
    IF u.kind = "null" \/ a.kind = "null" THEN VerifyCaught(NullDerefMessage)
    ELSE IF a.success /\ a.hasResult /\ Len(a.result) = 1 THEN Valid(a.result[1])
    ELSE IF u.success THEN Valid(Absent)
    ELSE IF ~a.success \/ ~a.hasResult \/ Len(a.result) = 0
         THEN Invalid(InvalidTokenMessage(u))
    ELSE Invalid(MultipleAccountsMessage)

\* Mutant: the listing's success flag is not looked at.
VerifyParsedNoSuccessCheck(u, a) ==
    IF u.kind = "null" THEN VerifyCaught(NullDerefMessage)
    ELSE IF u.success THEN Valid(Absent)
    ELSE IF a.kind = "null" THEN VerifyCaught(NullDerefMessage)
    ELSE IF ~a.hasResult \/ Len(a.result) = 0
         THEN Invalid(InvalidTokenMessage(u))
    ELSE IF Len(a.result) > 1 THEN Invalid(MultipleAccountsMessage)
    ELSE Valid(a.result[1])

\* Mutant: a listing of several accounts resolves to the first of them.
VerifyParsedFirstAccount(u, a) ==
    IF u.kind = "null" THEN VerifyCaught(NullDerefMessage)
    ELSE IF u.success THEN Valid(Absent)
    ELSE IF a.kind = "null" THEN VerifyCaught(NullDerefMessage)
    ELSE IF ~a.success \/ ~a.hasResult \/ Len(a.result) = 0
         THEN Invalid(InvalidTokenMessage(u))
    ELSE Valid(a.result[1])

\* The body of the try block once both bodies are parsed.
VerifyParsed(u, a) ==
    IF u.kind = "null" THEN VerifyCaught(NullDerefMessage)
    ELSE IF u.success THEN Valid(Absent)
    ELSE IF a.kind = "null" THEN VerifyCaught(NullDerefMessage)
    ELSE IF ~a.success \/ ~a.hasResult \/ Len(a.result) = 0
         THEN Invalid(InvalidTokenMessage(u))
    ELSE IF Len(a.result) > 1 THEN Invalid(MultipleAccountsMessage)
    ELSE Valid(a.result[1])

\* verifyToken(token): the set of values its promise can resolve to, given
\* the outcomes u and a of the two outbound calls.
verifyToken(u, a) ==
    IF Rejections(u, a, "throw") # {}
    THEN {VerifyCaught(m) : m \in Rejections(u, a, "throw")}
    ELSE IF Rejections(u, a, "badjson") # {}
    THEN {VerifyCaught(m) : m \in Rejections(u, a, "badjson")}
    ELSE {VerifyParsed(u, a)}

\* ------------------------------------------- executor and result shaper
\* The output budget in characters (truncate.ts; scaled down).
Budget == 16

\* The marker that ends a truncated text.
Marker == "..."

\* A script result that has no canonical serialization.
Unserializable == "<unserializable>"

\* Canonical serializations of the values a script can return.
ValueTexts == {"42", Rep(Budget + 1)}

\* Failure messages: short, the longest that fits the budget behind the
\* "Error: " prefix, and one character more.
Messages == {"bad", Rep(Budget - 7), Rep(Budget - 6)}

JsError(m) == [type |-> "Error", message |-> m]
JsNonError(type, m) == [type |-> type, message |-> m]
NoError == [type |-> "none", message |-> ""]

\* What a rejected executor promise can carry: an Error, a string, undefined.
Thrown ==
    {JsError(m) : m \in Messages}
        \cup {JsNonError("string", "bad"), JsNonError("undefined", "")}

\* executeSearch(code) / executeCode(code, accountId, apiToken): the promise
\* resolves to a value or rejects.
Outcomes ==
    {[kind |-> "value", value |-> v, err |-> NoError] :
        v \in ValueTexts \cup {Unserializable}}
    \cup {[kind |-> "throw", value |-> "", err |-> e] : e \in Thrown}

ShaperError == JsError("circular")

\* truncateResponse(result) throws instead of returning.
ShaperThrows(v) == v = Unserializable

\* truncateResponse(result): the text unchanged within the budget, else cut
\* to the budget and ended by the marker.
truncateResponse(v) ==
    IF Len(v) <= Budget THEN v
    ELSE SubSeq(v, 1, Budget - Len(Marker)) \o Marker

\* String(error) for a value that is not an Error.
JsString(e) == IF e.type = "undefined" THEN "undefined" ELSE e.message

formatError(e) == IF e.type = "Error" THEN e.message ELSE JsString(e)

ToolResult(text, isError) ==
    [text |-> text, isError |-> isError, escaped |-> FALSE]

Escaped == [text |-> "", isError |-> FALSE, escaped |-> TRUE]
NoResult == [text |-> "", isError |-> FALSE, escaped |-> FALSE]

\* Mutant: truncateResponse is called after the try block.
HandlerResultShaperOutsideTry(o) ==
    IF o.kind = "throw"
    THEN ToolResult("Error: " \o formatError(o.err), TRUE)
    ELSE IF ShaperThrows(o.value) THEN Escaped
    ELSE ToolResult(truncateResponse(o.value), FALSE)

\* try { result = await exec(...); return { text: truncateResponse(result) } }
\* catch (error) { return { text: `Error: ${formatError(error)}`, isError: true } }
HandlerResult(o) ==
    IF o.kind = "value" /\ ~ShaperThrows(o.value)
    THEN ToolResult(truncateResponse(o.value), FALSE)
    ELSE ToolResult(
             "Error: " \o formatError(IF o.kind = "throw" THEN o.err ELSE ShaperError),
             TRUE)

\* ------------------------------------------------------------ createServer
NoServer ==
    [exists |-> FALSE, apiToken |-> Absent, accountId |-> Absent,
     tools |-> {}, executeMode |-> "none"]

\* Mutant: execute is always registered with an account_id parameter.
createServerParamOnly(apiToken, accountId) ==
    [exists |-> TRUE, apiToken |-> apiToken, accountId |-> accountId,
     tools |-> {"search", "execute"}, executeMode |-> "param"]

\* createServer(env, apiToken, accountId): search is always registered;
\* execute is registered with a fixed account id when accountId is truthy,
\* with an account_id parameter otherwise.
createServer(apiToken, accountId) ==
    [exists |-> TRUE, apiToken |-> apiToken, accountId |-> accountId,
     tools |-> {"search", "execute"},
     executeMode |-> IF Truthy(accountId) THEN "fixed" ELSE "param"]

\* Mutant: account_id is not part of the execute schema in either mode.
InputSchemaCodeOnly(srv, tool) == {"code"}

\* The keys of a registered tool's inputSchema (all z.string(), required).
InputSchema(srv, tool) ==
    IF tool = "execute" /\ srv.executeMode = "param"
    THEN {"code", "account_id"}
    ELSE {"code"}

\* The arguments a caller can send with tools/call.
Codes == {"async () => 42"}
CallerAccountIds == {"", "a3"}
CallArgs ==
    [code : Codes \cup {Absent}, account_id : CallerAccountIds \cup {Absent}]

\* The SDK parses the arguments against the inputSchema before the handler.
ValidArgs(schema, args) == \A k \in schema : args[k] # Absent

\* ------------------------------------------------------------------- state
VARIABLES
    hdr,           \* request -> its Authorization header (Absent when missing)
    cfUser,        \* request -> what the user-token check answers its token
    cfAccounts,    \* request -> what the account listing answers its token
    pc,            \* request -> where its fetch() invocation stands
    token,         \* request -> const token of fetch()
    outbound,      \* request -> outbound verification calls issued so far
    verification,  \* request -> const verification of fetch()
    server,        \* request -> const server of fetch()
    response,      \* request -> the Response fetch() returned
    last           \* the latest tool call: who called what, what the executor
                   \* was handed and what the handler returned

vars ==
    <<hdr, cfUser, cfAccounts, pc, token, outbound, verification, server,
      response, last>>

NoVerification == [valid |-> FALSE, accountId |-> Absent, error |-> Absent]
NoResponse == [status |-> 0, contentType |-> Absent, error |-> Absent]
NoExecArgs == [code |-> Absent, accountId |-> Absent, apiToken |-> Absent]
NoCall ==
    [req |-> Absent, tool |-> Absent,
     args |-> [code |-> Absent, account_id |-> Absent],
     invoked |-> FALSE, executor |-> Absent, execArgs |-> NoExecArgs,
     outcome |-> [kind |-> "none", value |-> "", err |-> NoError],
     result |-> NoResult]

\* ----------------------------------------------------------------- inputs
\* A session with no Authorization header and a token nothing accepts.
UserRefuses ==
    [kind |-> "json", reason |-> "", success |-> FALSE,
     hasErrors |-> TRUE, errors |-> <<"Invalid API Token">>]
UserAccepts ==
    [kind |-> "json", reason |-> "", success |-> TRUE,
     hasErrors |-> FALSE, errors |-> <<>>]
AccountsRefuses ==
    [kind |-> "json", reason |-> "", success |-> FALSE,
     hasResult |-> FALSE, result |-> <<>>]
AccountsLists(l) ==
    [kind |-> "json", reason |-> "", success |-> TRUE,
     hasResult |-> TRUE, result |-> l]

\* A user token, two account tokens and a token that is refused.
TypicalRemotes ==
    {<<UserAccepts, AccountsLists(<<"a1", "a2">>)>>,
     <<UserRefuses, AccountsLists(<<"a1">>)>>,
     <<UserRefuses, AccountsLists(<<"a2">>)>>,
     <<UserRefuses, AccountsRefuses>>}

TypicalHeaders ==
    {NoHeader, <<"x">>, <<"Bearer", " ", "x">>, <<"Bearer", " ", "Bearer">>}

InitControl ==
    /\ pc = [r \in Requests |-> "received"]
    /\ token = [r \in Requests |-> Absent]
    /\ outbound = [r \in Requests |-> 0]
    /\ verification = [r \in Requests |-> NoVerification]
    /\ server = [r \in Requests |-> NoServer]
    /\ response = [r \in Requests |-> NoResponse]
    /\ last = NoCall

\* One session with any header or any pair of remote answers; the other
\* request arrives without an Authorization header.
Init ==
    /\ \E h \in HeaderInputs, u \in UserOutcomes, a \in AccountsOutcomes :
          /\ h \in TypicalHeaders \/ <<u, a>> \in TypicalRemotes
          /\ hdr = [r \in Requests |-> IF r = "r1" THEN h ELSE NoHeader]
          /\ cfUser = [r \in Requests |-> IF r = "r1" THEN u ELSE UserRefuses]
          /\ cfAccounts =
                 [r \in Requests |-> IF r = "r1" THEN a ELSE AccountsRefuses]
    /\ InitControl

\* Two concurrent sessions with typical headers and remote answers.
InitConcurrent ==
    /\ hdr \in [Requests -> TypicalHeaders]
    /\ \E f \in [Requests -> TypicalRemotes] :
          /\ cfUser = [r \in Requests |-> f[r][1]]
          /\ cfAccounts = [r \in Requests |-> f[r][2]]
    /\ InitControl

\* ---------------------------------------------------------------- fetch()
\* if (!authHeader) return jsonError("Authorization header required")
RejectNoHeader(r) ==
    /\ pc[r] = "received"
    /\ hdr[r] = NoHeader \/ hdr[r] = <<>>
    /\ response' =
          [response EXCEPT
              ![r] = jsonError("Authorization header required", DefaultErrorStatus)]
    /\ pc' = [pc EXCEPT ![r] = "done"]
    /\ UNCHANGED <<hdr, cfUser, cfAccounts, token, outbound, verification,
                   server, last>>

\* if (!token) return jsonError("Invalid Authorization header format")
RejectBadFormat(r) ==
    /\ pc[r] = "received"
    /\ hdr[r] # NoHeader /\ hdr[r] # <<>>
    /\ extractToken(hdr[r]) = Absent
    /\ response' =
          [response EXCEPT
              ![r] = jsonError("Invalid Authorization header format",
                               DefaultErrorStatus)]
    /\ pc' = [pc EXCEPT ![r] = "done"]
    /\ UNCHANGED <<hdr, cfUser, cfAccounts, token, outbound, verification,
                   server, last>>

\* const token = extractToken(authHeader); verifyToken(token) issues both
\* outbound calls and awaits them.
VerifyStart(r) ==
    /\ pc[r] = "received"
    /\ hdr[r] # NoHeader /\ hdr[r] # <<>>
    /\ extractToken(hdr[r]) # Absent
    /\ token' = [token EXCEPT ![r] = extractToken(hdr[r])]
    /\ outbound' = [outbound EXCEPT ![r] = @ + 2]
    /\ pc' = [pc EXCEPT ![r] = "verifying"]
    /\ UNCHANGED <<hdr, cfUser, cfAccounts, verification, server, response,
                   last>>

\* verifyToken resolved to an invalid result:
\* return jsonError(verification.error || "Token verification failed")
VerifyRejected(r) ==
    /\ pc[r] = "verifying"
    /\ \E v \in verifyToken(cfUser[r], cfAccounts[r]) :
          /\ ~v.valid
          /\ verification' = [verification EXCEPT ![r] = v]
          /\ response' =
                [response EXCEPT
                    ![r] = jsonError(OrElse(v.error, "Token verification failed"),
                                     DefaultErrorStatus)]
    /\ pc' = [pc EXCEPT ![r] = "done"]
    /\ UNCHANGED <<hdr, cfUser, cfAccounts, token, outbound, server, last>>

\* Mutant: the server is created without looking at verification.valid.
VerifyAcceptedUnchecked(r) ==
    /\ pc[r] = "verifying"
    /\ \E v \in verifyToken(cfUser[r], cfAccounts[r]) :
          /\ verification' = [verification EXCEPT ![r] = v]
          /\ server' = [server EXCEPT ![r] = createServer(token[r], v.accountId)]
    /\ pc' = [pc EXCEPT ![r] = "handling"]
    /\ UNCHANGED <<hdr, cfUser, cfAccounts, token, outbound, response, last>>

\* verifyToken resolved to a valid result: createServer, new transport,
\* server.connect(transport), transport.handleRequest(request).
VerifyAccepted(r) ==
    /\ pc[r] = "verifying"
    /\ \E v \in verifyToken(cfUser[r], cfAccounts[r]) :
          /\ v.valid
          /\ verification' = [verification EXCEPT ![r] = v]
          /\ server' = [server EXCEPT ![r] = createServer(token[r], v.accountId)]
    /\ pc' = [pc EXCEPT ![r] = "handling"]
    /\ UNCHANGED <<hdr, cfUser, cfAccounts, token, outbound, response, last>>

\* ------------------------------------------------------------ tool calls
\* Mutant: one server is kept for the whole instance and reused.
SessionServerShared(r) ==
    IF \E q \in Requests : server[q].exists
    THEN server[CHOOSE q \in Requests : server[q].exists]
    ELSE server[r]

\* The server whose handlers the transport of request r dispatches to.
SessionServer(r) == server[r]

\* transport.handleRequest(request) is dispatching the tool calls of r.
Dispatching(r) == pc[r] = "handling"

Call(r, tool, args, executor, execArgs, o) ==
    [req |-> r, tool |-> tool, args |-> args, invoked |-> TRUE,
     executor |-> executor, execArgs |-> execArgs, outcome |-> o,
     result |-> HandlerResult(o)]

\* tools/call search: async ({ code }) => executeSearch(code)
Search(r) ==
    /\ Dispatching(r)
    /\ "search" \in SessionServer(r).tools
    /\ \E args \in CallArgs, o \in Outcomes :
          /\ ValidArgs(InputSchema(SessionServer(r), "search"), args)
          /\ last' = Call(r, "search", args, "executeSearch",
                          [code |-> args.code, accountId |-> Absent,
                           apiToken |-> Absent], o)
    /\ UNCHANGED <<hdr, cfUser, cfAccounts, pc, token, outbound, verification,
                   server, response>>

\* tools/call execute, account token mode:
\* async ({ code }) => executeCode(code, accountId, apiToken)
ExecuteFixed(r) ==
    /\ Dispatching(r)
    /\ "execute" \in SessionServer(r).tools
    /\ SessionServer(r).executeMode = "fixed"
    /\ \E args \in CallArgs, o \in Outcomes :
          /\ ValidArgs(InputSchema(SessionServer(r), "execute"), args)
          /\ last' = Call(r, "execute", args, "executeCode",
                          [code |-> args.code,
                           accountId |-> SessionServer(r).accountId,
                           apiToken |-> SessionServer(r).apiToken], o)
    /\ UNCHANGED <<hdr, cfUser, cfAccounts, pc, token, outbound, verification,
                   server, response>>

\* tools/call execute, user token mode:
\* async ({ code, account_id }) => executeCode(code, account_id, apiToken)
ExecuteParam(r) ==
    /\ Dispatching(r)
    /\ "execute" \in SessionServer(r).tools
    /\ SessionServer(r).executeMode = "param"
    /\ \E args \in CallArgs, o \in Outcomes :
          /\ ValidArgs(InputSchema(SessionServer(r), "execute"), args)
          /\ last' = Call(r, "execute", args, "executeCode",
                          [code |-> args.code,
                           accountId |-> args.account_id,
                           apiToken |-> SessionServer(r).apiToken], o)
    /\ UNCHANGED <<hdr, cfUser, cfAccounts, pc, token, outbound, verification,
                   server, response>>

\* tools/call with arguments the tool's inputSchema refuses: the SDK answers
\* with an error and the handler is not called.
CallInvalid(r) ==
    /\ Dispatching(r)
    /\ \E tool \in SessionServer(r).tools, args \in CallArgs :
          /\ ~ValidArgs(InputSchema(SessionServer(r), tool), args)
          /\ last' = [NoCall EXCEPT !.req = r, !.tool = tool, !.args = args]
    /\ UNCHANGED <<hdr, cfUser, cfAccounts, pc, token, outbound, verification,
                   server, response>>

\* handleRequest resolved: ctx.waitUntil(transport.close()); return response
Close(r) ==
    /\ pc[r] = "handling"
    /\ response' =
          [response EXCEPT
              ![r] = [status |-> 200, contentType |-> "application/json",
                      error |-> Absent]]
    /\ pc' = [pc EXCEPT ![r] = "done"]
    /\ UNCHANGED <<hdr, cfUser, cfAccounts, token, outbound, verification,
                   server, last>>

Next ==
    \E r \in Requests :
        \/ RejectNoHeader(r)
        \/ RejectBadFormat(r)
        \/ VerifyStart(r)
        \/ VerifyRejected(r)
        \/ VerifyAccepted(r)
        \/ Search(r)
        \/ ExecuteFixed(r)
        \/ ExecuteParam(r)
        \/ CallInvalid(r)
        \/ Close(r)

Spec == Init /\ [][Next]_vars

SpecConcurrent == InitConcurrent /\ [][Next]_vars

\* =================================================================== claims
\* verifyToken has returned to the fetch() of request r.
Resolved(r) == pc[r] \in {"handling", "done"} /\ token[r] # Absent

\* The user-level check answers success.
UserCheckSucceeds(u) == u.kind = "json" /\ u.success

\* The user-level check answers, and refuses the credential.
UserCheckRefuses(u) == u.kind = "json" /\ ~u.success

\* The account listing failed at transport level or its body did not parse.
ListingFailsOutright(a) == a.kind \in {"throw", "badjson"}

\* The account listing answers success with exactly n accounts.
ListsAccounts(a, n) ==
    a.kind = "json" /\ a.success /\ a.hasResult /\ Len(a.result) = n

\* The account listing fails, or answers with no account.
ListingFailsOrEmpty(a) ==
    a.kind # "json" \/ ~a.success \/ ~a.hasResult \/ Len(a.result) = 0

MultiAccount == Valid(Absent)

\* ---- C1
\* C1 as stated: whenever the user-level check succeeds, identity resolution
\* yields MultiAccount, whatever the account listing does, a listing that
\* fails outright included.
C1_Original ==
    \A r \in Requests :
        Resolved(r) /\ UserCheckSucceeds(cfUser[r])
            => verification[r] = MultiAccount

\* C1 amended: whenever the user-level check succeeds, identity resolution
\* yields MultiAccount for every answer of the account listing (zero, one or
\* many accounts, success=false, a null body); when the listing fails at
\* transport level or its body does not parse, the result is the AuthFailure
\* "Failed to verify token: <reason>".
C1_MultiAccountWhenUserValid ==
    \A r \in Requests :
        Resolved(r) /\ UserCheckSucceeds(cfUser[r])
            => IF ListingFailsOutright(cfAccounts[r])
               THEN verification[r] =
                        Invalid("Failed to verify token: " \o cfAccounts[r].reason)
               ELSE verification[r] = MultiAccount

\* A user-valid credential whose listing reports success=false resolved to
\* MultiAccount.
C1_Witness ==
    \E r \in Requests :
        /\ Resolved(r)
        /\ UserCheckSucceeds(cfUser[r])
        /\ cfAccounts[r].kind = "json" /\ ~cfAccounts[r].success
        /\ verification[r] = MultiAccount

\* ---- C2
\* The identity a request resolved to is SingleAccount.
SingleAccount(r) == verification[r].valid /\ verification[r].accountId # Absent

\* C2: an execute call of a SingleAccount session hands the executor the
\* account id resolved at session start, whatever account_id the caller
\* sent; an execute call of a MultiAccount session without account_id never
\* reaches the executor, and a supplied account_id is handed over verbatim.
C2_ExecuteAccountId ==
    last.req # Absent /\ last.tool = "execute" =>
        /\ SingleAccount(last.req) /\ last.invoked
              => /\ last.executor = "executeCode"
                 /\ last.execArgs.accountId = verification[last.req].accountId
        /\ verification[last.req] = MultiAccount /\ last.args.account_id = Absent
              => ~last.invoked /\ last.executor = Absent
        /\ verification[last.req] = MultiAccount /\ last.invoked
              => /\ last.executor = "executeCode"
                 /\ last.execArgs.accountId = last.args.account_id

\* An execute call of a session resolved to account a1 was sent account_id
\* a3 and ran against a1.
C2_Witness ==
    /\ last.req # Absent
    /\ last.tool = "execute"
    /\ last.invoked
    /\ SingleAccount(last.req)
    /\ last.args.account_id = "a3"
    /\ last.execArgs.accountId = "a1"

\* ---- C3
\* C3: a credential that fails the user-level check and whose account
\* listing fails or lists no account resolves to AuthFailure; its request
\* is answered with the JSON error, no server is created for it and no
\* tool call of it is ever dispatched.
C3_AuthFailureWhenBothFail ==
    \A r \in Requests :
        ~UserCheckSucceeds(cfUser[r]) /\ ListingFailsOrEmpty(cfAccounts[r])
            => /\ ~server[r].exists
               /\ last.req # r
               /\ pc[r] # "handling"
               /\ Resolved(r) =>
                     /\ ~verification[r].valid
                     /\ verification[r].error # Absent
                     /\ response[r] =
                           jsonError(verification[r].error, DefaultErrorStatus)

\* A request whose token both checks refuse has been answered 401.
C3_Witness ==
    \E r \in Requests :
        /\ Resolved(r)
        /\ UserCheckRefuses(cfUser[r])
        /\ ListsAccounts(cfAccounts[r], 0)
        /\ response[r].status = DefaultErrorStatus

\* ---- C4
\* C4 as stated: whenever the account listing succeeds with two or more
\* accounts, identity resolution yields AuthFailure.
C4_Original ==
    \A r \in Requests :
        /\ Resolved(r)
        /\ \E n \in 2..MaxAccounts : ListsAccounts(cfAccounts[r], n)
        => ~verification[r].valid

\* C4 amended: whenever the user-level check does not succeed and the
\* account listing succeeds with two or more accounts, identity resolution
\* yields AuthFailure; when the user-level check answered, the failure is
\* the multiple-accounts one.
C4_AuthFailureWhenSeveralAccounts ==
    \A r \in Requests :
        /\ Resolved(r)
        /\ ~UserCheckSucceeds(cfUser[r])
        /\ \E n \in 2..MaxAccounts : ListsAccounts(cfAccounts[r], n)
        => /\ ~verification[r].valid
           /\ ~server[r].exists
           /\ UserCheckRefuses(cfUser[r])
                 => verification[r].error = MultipleAccountsMessage

\* A credential refused at user level that lists two accounts was refused
\* with the multiple-accounts message.
C4_Witness ==
    \E r \in Requests :
        /\ Resolved(r)
        /\ UserCheckRefuses(cfUser[r])
        /\ ListsAccounts(cfAccounts[r], 2)
        /\ verification[r].error = MultipleAccountsMessage

\* ---- C5
\* C5: a credential the user-level check refuses and whose account listing
\* succeeds with exactly one account resolves to SingleAccount with that
\* account's id, and the session's execute tool is registered in
\* fixed-account mode with that id.
C5_SingleAccountWhenOneAccount ==
    \A r \in Requests :
        /\ Resolved(r)
        /\ UserCheckRefuses(cfUser[r])
        /\ ListsAccounts(cfAccounts[r], 1)
        => /\ verification[r] = Valid(cfAccounts[r].result[1])
           /\ server[r].exists
           /\ "execute" \in server[r].tools
           /\ server[r].executeMode = "fixed"
           /\ server[r].accountId = cfAccounts[r].result[1]

\* A session of an account token of account a2 has its server.
C5_Witness ==
    \E r \in Requests :
        /\ pc[r] = "handling"
        /\ UserCheckRefuses(cfUser[r])
        /\ ListsAccounts(cfAccounts[r], 1)
        /\ server[r].executeMode = "fixed"
        /\ server[r].accountId = "a2"

\* ---- C6
\* The header value is Bearer, whitespace, one token and nothing else.
WellFormedBearer(h) ==
    /\ Len(h) >= 3
    /\ h[1] = "Bearer"
    /\ \E j \in 3..Len(h) :
          /\ \A k \in 2..(j - 1) : h[k] = " "
          /\ \A k \in j..Len(h) : h[k] # " "

\* C6: a request whose Authorization header is absent or not of the form
\* Bearer <token> causes no outbound verification call, gets no server and
\* no tool call, and is answered with a JSON error of a non-200 status.
C6_MalformedHeaderRejected ==
    \A r \in Requests :
        hdr[r] = NoHeader \/ ~WellFormedBearer(hdr[r])
            => /\ outbound[r] = 0
               /\ ~server[r].exists
               /\ last.req # r
               /\ pc[r] = "done" =>
                     /\ response[r].status # 200
                     /\ response[r].contentType = "application/json"
                     /\ response[r].error # Absent

\* ---- C7
\* The executor rejected, or the result shaper threw.
Fails(o) == o.kind = "throw" \/ ShaperThrows(o.value)

\* The message of the failure: an Error's message, else the thrown value
\* converted to a string.
FailureMessage(o) ==
    IF o.kind # "throw" THEN ShaperError.message
    ELSE IF o.err.type = "undefined" THEN "undefined"
    ELSE o.err.message

\* C7: a handler that ran returned (nothing escaped it); when the executor
\* or the shaper failed the result is isError with the text
\* "Error: <message>", otherwise it is the shaped text without isError.
C7_HandlerContainsFailures ==
    last.invoked =>
        /\ ~last.result.escaped
        /\ IF Fails(last.outcome)
           THEN /\ last.result.isError
                /\ last.result.text = "Error: " \o FailureMessage(last.outcome)
           ELSE /\ ~last.result.isError
                /\ last.result.text = truncateResponse(last.outcome.value)

\* An execute call whose result could not be shaped returned an error
\* result.
C7_Witness ==
    /\ last.invoked
    /\ last.tool = "execute"
    /\ ShaperThrows(last.outcome.value)
    /\ last.result.isError
    /\ last.result.text = "Error: circular"

\* ---- C8
\* C8: the text of every tool result, success or failure, is within the
\* output budget.
C8_EveryTextWithinBudget ==
    last.invoked => Len(last.result.text) <= Budget

\* ---- C9
\* C9: each session's server holds the credential extracted from its own
\* request and the account id resolved from its own token, and every
\* execute call hands the executor the credential and account id of the
\* request it belongs to.
C9_SessionIsolation ==
    /\ \A r \in Requests :
          server[r].exists =>
              /\ server[r].apiToken = extractToken(hdr[r])
              /\ verification[r] \in verifyToken(cfUser[r], cfAccounts[r])
              /\ server[r].accountId = verification[r].accountId
    /\ last.invoked /\ last.tool = "execute" =>
          /\ last.execArgs.apiToken = extractToken(hdr[last.req])
          /\ last.execArgs.accountId =
                IF SingleAccount(last.req)
                THEN verification[last.req].accountId
                ELSE last.args.account_id

\* Two sessions with different credentials are open and the second one's
\* execute ran with its own credential.
C9_Witness ==
    /\ pc["r1"] = "handling" /\ pc["r2"] = "handling"
    /\ server["r1"].apiToken # server["r2"].apiToken
    /\ server["r1"].accountId # server["r2"].accountId
    /\ last.req = "r2" /\ last.invoked /\ last.tool = "execute"
    /\ last.execArgs.apiToken = server["r2"].apiToken

\* ---- C10
\* A session that has a server, dispatches calls or has made one resolved
\* its identity, validly, with its two outbound calls, before.
ResolvedBeforeTools ==
    \A r \in Requests :
        server[r].exists \/ pc[r] = "handling" \/ last.req = r
            => /\ verification[r].valid
               /\ outbound[r] = 2
               /\ verification[r] \in verifyToken(cfUser[r], cfAccounts[r])
               /\ server[r].accountId = verification[r].accountId

\* Once verifyToken has returned, the session's identity, its server and
\* its count of verification calls never change.
IdentityFixed ==
    \A r \in Requests :
        pc[r] \in {"handling", "done"}
            => /\ verification'[r] = verification[r]
               /\ server'[r] = server[r]
               /\ outbound'[r] = outbound[r]

\* C10: within a session identity resolution has completed with a valid
\* result before any tool handler can run, and the identity is never
\* resolved again during the session.
C10_ResolutionPrecedesTools == []ResolvedBeforeTools /\ [][IdentityFixed]_vars

\* A session is dispatching calls and one of its tools has run.
C10_Witness ==
    \E r \in Requests :
        /\ pc[r] = "handling"
        /\ last.req = r /\ last.invoked
        /\ verification[r].valid

\* ---- C11
\* The call failed at transport level or its body did not parse.
FailsOutright(o) == o.kind \in {"throw", "badjson"}

\* The reasons of the calls of request r that failed outright.
OutrightReasons(r) ==
    (IF FailsOutright(cfUser[r]) THEN {cfUser[r].reason} ELSE {})
        \cup (IF FailsOutright(cfAccounts[r]) THEN {cfAccounts[r].reason} ELSE {})

\* C11: identity resolution issues exactly two outbound calls, none before
\* the token is extracted and none after; when either call fails at
\* transport level or its body does not parse, verifyToken returns the
\* AuthFailure "Failed to verify token: <reason>", the request is answered
\* with that JSON error and gets no server and no tool call; and every
\* AuthFailure carries a non-empty error message.
C11_TwoCallsAndCaughtFailures ==
    \A r \in Requests :
        /\ outbound[r] = IF token[r] = Absent THEN 0 ELSE 2
        /\ OutrightReasons(r) # {} =>
              /\ ~server[r].exists
              /\ last.req # r
              /\ Resolved(r) =>
                    /\ ~verification[r].valid
                    /\ \E m \in OutrightReasons(r) :
                          verification[r].error = "Failed to verify token: " \o m
                    /\ response[r] =
                          jsonError(verification[r].error, DefaultErrorStatus)
        /\ Resolved(r) /\ ~verification[r].valid =>
              /\ verification[r].error # Absent
              /\ Len(verification[r].error) > 0
              /\ response[r].error = verification[r].error

\* A request whose user-level body did not parse was answered with the
\* caught failure after two outbound calls.
C11_Witness ==
    \E r \in Requests :
        /\ Resolved(r)
        /\ cfUser[r].kind = "badjson"
        /\ cfAccounts[r].kind = "json"
        /\ outbound[r] = 2
        /\ response[r] =
              jsonError("Failed to verify token: user body is not JSON",
                        DefaultErrorStatus)
====
